---- MODULE Spec2Model ----
(***************************************************************************)
(* Model of the workout-tracker REST API (src/server.js) over the MySQL    *)
(* schema of src/unnamed/part_001.  The state is the four tables, the      *)
(* auto-increment counters, the cascading deletes that are between two of  *)
(* their store calls, and the last HTTP response sent.  Every store call   *)
(* (connection.query) is one atomic step; a cascading delete is a chain of *)
(* such steps, each issued from the callback of the previous one.          *)
(***************************************************************************)
EXTENDS Integers, Sequences, FiniteSets, TLC

VARIABLES workouts, exercises, workout_exercises, sets, autoinc, pending, resp

store == <<workouts, exercises, workout_exercises, sets>>
vars == <<workouts, exercises, workout_exercises, sets, autoinc, pending, resp>>

\* ------------------------------------------------------------------ bounds
\* Highest id the auto-increment counters hand out, per table.
MaxWorkoutId == 2
MaxWorkoutExerciseId == 2
MaxSetId == 2
\* Cascading deletes that may be between two of their store calls at once.
MaxInFlight == 1

\* ------------------------------------------------------- JavaScript values
\* A value of a parsed JSON body: undefined (field absent), a number or a
\* string.  All three shapes carry the same fields so that they compare.
Undefined == [t |-> "undefined", n |-> 0, s |-> ""]
Num(n) == [t |-> "number", n |-> n, s |-> ""]
Str(s) == [t |-> "string", n |-> 0, s |-> s]

\* typeof v
TypeOf(v) == v.t

\* !v : undefined, 0 and "" are falsy, every other number or string is truthy.
Falsy(v) ==
  \/ v.t = "undefined"
  \/ v.t = "number" /\ v.n = 0
  \/ v.t = "string" /\ v.s = ""

\* The strings of the model that are numeric literals, with their value.
NumericStrings == {"0", "2", "-1"}
StringValue(s) == IF s = "0" THEN 0 ELSE IF s = "2" THEN 2 ELSE -1

\* ToNumber(v) is NaN for undefined and for a non-numeric string.
IsNaN(v) ==
  \/ v.t = "undefined"
  \/ v.t = "string" /\ v.s # "" /\ v.s \notin NumericStrings
ToNumber(v) ==
  IF v.t = "number" THEN v.n
  ELSE IF v.t = "string" /\ v.s \in NumericStrings THEN StringValue(v.s)
  ELSE 0

\* v < 0 : both sides are converted to numbers; any comparison with NaN is false.
LessThanZero(v) == ~IsNaN(v) /\ ToNumber(v) < 0

\* ------------------------------------------------------------- SQL values
\* A nullable column holds <<>> (NULL) or <<v>>.
Null == <<>>
Some(v) == <<v>>

\* A bound parameter written into an INT/FLOAT NOT NULL column: undefined is
\* sent as NULL and refused, a number is stored as is, a numeric string is
\* converted, any other string is refused (strict SQL mode).
SqlNumberOk(v) ==
  \/ v.t = "number"
  \/ v.t = "string" /\ v.s \in NumericStrings
SqlNumber(v) == ToNumber(v)

\* A bound parameter written into a text column: undefined is sent as NULL.
SqlText(v) == IF v.t = "string" THEN Some(v.s) ELSE Null

\* The seed rows of the exercises catalog.
SeedExercises ==
  << [name |-> "Squat", equipment |-> "Barbell", muscle_group |-> "Legs"],
     [name |-> "Bench Press", equipment |-> "Barbell", muscle_group |-> "Chest"],
     [name |-> "Bent Over Row", equipment |-> "Barbell", muscle_group |-> "Back"],
     [name |-> "Overhead Press", equipment |-> "Barbell", muscle_group |-> "Shoulders"],
     [name |-> "Deadlift", equipment |-> "Barbell", muscle_group |-> "Back"] >>

\* A table is a function from the ids of its rows to the other columns.
Rows(table) == DOMAIN table
Without(table, ids) == [i \in (DOMAIN table) \ ids |-> table[i]]
With(table, id, row) == [i \in (DOMAIN table) \cup {id} |-> IF i = id THEN row ELSE table[i]]
EmptyTable == [i \in {} |-> 0]

\* The tables the schema creates.
TableNames == {"workouts", "exercises", "workout_exercises", "sets"}

\* ---------------------------------------------------------- SQL statements
\* Each statement is evaluated on the current tables and yields what the
\* driver hands to the callback (err, results.affectedRows) and the table as
\* the statement leaves it.  A statement that errs changes nothing.
Failed(table) == [err |-> TRUE, affectedRows |-> 0, table |-> table]
Done(n, table) == [err |-> FALSE, affectedRows |-> n, table |-> table]

\* InsertWorkout with the two bound parameters in the wrong order.
InsertWorkout_swapped(name, date) ==
  IF SqlText(date) = Null THEN Failed(workouts)
  ELSE Done(1, With(workouts, autoinc.workouts,
                    [name |-> SqlText(date)[1], date |-> SqlText(name), notes |-> Null]))

\* INSERT INTO workouts (name, date) VALUES (?, ?)
\* name is NOT NULL; notes is not named and starts NULL.
InsertWorkout(name, date) ==
  IF SqlText(name) = Null THEN Failed(workouts)
  ELSE Done(1, With(workouts, autoinc.workouts,
                    [name |-> SqlText(name)[1], date |-> SqlText(date), notes |-> Null]))

\* UpdateNotes without its WHERE clause: every row is updated.
UpdateNotes_noWhere(notes, id) ==
  Done(Cardinality(Rows(workouts)), [w \in Rows(workouts) |-> [workouts[w] EXCEPT !.notes = SqlText(notes)]])

\* UPDATE workouts SET notes = ? WHERE id = ?
UpdateNotes(notes, id) ==
  IF id \in Rows(workouts)
  THEN Done(1, [workouts EXCEPT ![id].notes = SqlText(notes)])
  ELSE Done(0, workouts)

\* INSERT INTO workout_exercises (workout_id, exercise_id) VALUES (?, ?)
\* Both columns are NOT NULL and carry a foreign key.
InsertWorkoutExercise(workout_id, exercise_id) ==
  IF /\ SqlNumberOk(workout_id) /\ SqlNumberOk(exercise_id)
     /\ SqlNumber(workout_id) \in Rows(workouts)
     /\ SqlNumber(exercise_id) \in Rows(exercises)
  THEN Done(1, With(workout_exercises, autoinc.workout_exercises,
                    [workout_id |-> SqlNumber(workout_id),
                     exercise_id |-> SqlNumber(exercise_id)]))
  ELSE Failed(workout_exercises)

\* InsertSet on a sets table declared without its foreign key.
InsertSet_noForeignKey(workout_exercises_id, reps, weight) ==
  IF SqlNumberOk(workout_exercises_id) /\ SqlNumberOk(reps) /\ SqlNumberOk(weight)
  THEN Done(1, With(sets, autoinc.sets,
                    [workout_exercises_id |-> SqlNumber(workout_exercises_id),
                     reps |-> SqlNumber(reps), weight |-> SqlNumber(weight)]))
  ELSE Failed(sets)

\* INSERT INTO sets (workout_exercises_id, reps, weight) VALUES (?, ?, ?)
\* All three columns are NOT NULL; workout_exercises_id carries a foreign key.
InsertSet(workout_exercises_id, reps, weight) ==
  IF /\ SqlNumberOk(workout_exercises_id) /\ SqlNumberOk(reps) /\ SqlNumberOk(weight)
     /\ SqlNumber(workout_exercises_id) \in Rows(workout_exercises)
  THEN Done(1, With(sets, autoinc.sets,
                    [workout_exercises_id |-> SqlNumber(workout_exercises_id),
                     reps |-> SqlNumber(reps), weight |-> SqlNumber(weight)]))
  ELSE Failed(sets)

\* SELECT id FROM workout_exercises WHERE workout_id = ?
WorkoutExercisesOf(id) ==
  {w \in Rows(workout_exercises) : workout_exercises[w].workout_id = id}

\* The sets rows whose workout_exercises_id is one of ids.
SetsOf(ids) == {s \in Rows(sets) : sets[s].workout_exercises_id \in ids}

\* deleteWorkoutExerciseSetsQuery without its WHERE clause: every set goes.
deleteWorkoutExerciseSetsQuery_noWhere(id) ==
  Done(Cardinality(Rows(sets)), EmptyTable)

\* deleteWorkoutExerciseSetsQuery whose subquery selects no row, so that the
\* sets of the workout stay.
deleteWorkoutExerciseSetsQuery_noRows(id) ==
  Done(0, sets)

\* DELETE FROM sets WHERE workout_exercises_id IN
\*   (SELECT id FROM workout_exercises WHERE workout_id = ?)
deleteWorkoutExerciseSetsQuery(id) ==
  LET gone == SetsOf(WorkoutExercisesOf(id))
  IN Done(Cardinality(gone), Without(sets, gone))

\* DELETE FROM workout_exercises WHERE workout_id = ?
\* Refused by sets.workout_exercises_id's foreign key while a set references
\* one of the rows.
deleteWorkoutExerciseQuery(id) ==
  LET gone == WorkoutExercisesOf(id)
  IN IF SetsOf(gone) # {} THEN Failed(workout_exercises)
     ELSE Done(Cardinality(gone), Without(workout_exercises, gone))

\* deleteWorkoutQuery on a workout_exercises table declared without the
\* foreign key on workout_id.
deleteWorkoutQuery_noForeignKey(id) ==
  LET gone == {id} \cap Rows(workouts)
  IN Done(Cardinality(gone), Without(workouts, gone))

\* deleteWorkoutQuery that reports the row as deleted and leaves it.
deleteWorkoutQuery_keepsRow(id) ==
  LET gone == {id} \cap Rows(workouts)
  IN IF gone # {} /\ WorkoutExercisesOf(id) # {} THEN Failed(workouts)
     ELSE Done(Cardinality(gone), workouts)

\* DELETE FROM workouts WHERE id = ?
\* Refused by workout_exercises.workout_id's foreign key while a
\* workout_exercises row references the workout.
deleteWorkoutQuery(id) ==
  LET gone == {id} \cap Rows(workouts)
  IN IF gone # {} /\ WorkoutExercisesOf(id) # {} THEN Failed(workouts)
     ELSE Done(Cardinality(gone), Without(workouts, gone))

\* DELETE FROM sets WHERE workout_exercises_id = ?
deleteSetsQuery(id) ==
  LET gone == SetsOf({id})
  IN Done(Cardinality(gone), Without(sets, gone))

\* DELETE FROM workout_exercise WHERE id = ?
\* The statement of DELETE /workout_exercises/:id names the table
\* "workout_exercise"; a statement on a table the schema lacks errs.
deleteWorkoutExerciseRowQuery(id) ==
  LET gone == {id} \cap Rows(workout_exercises)
  IN IF "workout_exercise" \notin TableNames \/ SetsOf(gone) # {}
     THEN Failed(workout_exercises)
     ELSE Done(Cardinality(gone), Without(workout_exercises, gone))

\* SELECT * FROM workouts
SelectWorkouts ==
  {[id |-> w, name |-> workouts[w].name, date |-> workouts[w].date,
    notes |-> workouts[w].notes] : w \in Rows(workouts)}

\* SELECT * FROM exercises
SelectExercises ==
  {[id |-> e, name |-> exercises[e].name, equipment |-> exercises[e].equipment,
    muscle_group |-> exercises[e].muscle_group] : e \in Rows(exercises)}

\* SELECT e.* FROM workout_exercises we JOIN exercises e ON we.exercise_id = e.id
\* WHERE we.workout_id = ?      One row per workout_exercises row: a bag.
SelectWorkoutExercises(id) ==
  LET joined == {w \in WorkoutExercisesOf(id) :
                   workout_exercises[w].exercise_id \in Rows(exercises)}
      row(w) == LET e == workout_exercises[w].exercise_id
                IN [id |-> e, name |-> exercises[e].name,
                    equipment |-> exercises[e].equipment,
                    muscle_group |-> exercises[e].muscle_group]
  IN [r \in {row(w) : w \in joined} |-> Cardinality({w \in joined : row(w) = r})]

\* SelectWorkoutDetail with JOIN sets in place of LEFT JOIN sets.
SelectWorkoutDetail_innerJoin(id) ==
  LET inner == {w \in {x \in Rows(workout_exercises) : workout_exercises[x].workout_id = id} :
                  workout_exercises[w].exercise_id \in Rows(exercises)}
      joined == {<<w, s>> \in inner \X Rows(sets) : sets[s].workout_exercises_id = w}
      row(p) == [workout_exercise_id |-> p[1],
                 exercise_name |-> exercises[workout_exercises[p[1]].exercise_id].name,
                 reps |-> <<sets[p[2]].reps>>, weight |-> <<sets[p[2]].weight>>]
  IN [r \in {row(p) : p \in joined} |-> Cardinality({p \in joined : row(p) = r})]

\* SELECT we.id AS workout_exercise_id, e.name AS exercise_name, s.reps, s.weight
\* FROM workout_exercises we JOIN exercises e ON we.exercise_id = e.id
\* LEFT JOIN sets s ON we.id = s.workout_exercises_id WHERE we.workout_id = ?
\* The result is a bag of rows: a row to the number of times it is returned.
\* A joined pair <<w, s>> has s = 0 where the LEFT JOIN found no set.
SelectWorkoutDetail(id) ==
  LET inner == {w \in WorkoutExercisesOf(id) :
                  workout_exercises[w].exercise_id \in Rows(exercises)}
      joined == {<<w, s>> \in inner \X Rows(sets) : sets[s].workout_exercises_id = w}
                \cup {<<w, 0>> : w \in {x \in inner : SetsOf({x}) = {}}}
      row(p) == [workout_exercise_id |-> p[1],
                 exercise_name |-> exercises[workout_exercises[p[1]].exercise_id].name,
                 reps |-> IF p[2] = 0 THEN Null ELSE Some(sets[p[2]].reps),
                 weight |-> IF p[2] = 0 THEN Null ELSE Some(sets[p[2]].weight)]
  IN [r \in {row(p) : p \in joined} |-> Cardinality({p \in joined : row(p) = r})]

\* --------------------------------------------------------------- responses
\* One entry of a request's store calls: the statement handed to
\* connection.query and what its callback received.
Call(query, r) == [query |-> query, err |-> r.err, affectedRows |-> r.affectedRows]

\* The response of a request: res.status(..).send(..) / .json(..), with the
\* request's path id and the values interpolated into the message (args), the
\* rows of a result set (json) and the store calls the request made before
\* responding (calls).
Response(route, status, send, args, json, calls) ==
  [route |-> route, status |-> status, send |-> send, args |-> args,
   json |-> json, calls |-> calls]

NoRows == {}

\* A slot of pending that holds no request.
Idle == [route |-> "idle", id |-> 0, calls |-> <<>>]

\* ------------------------------------------------------------- middleware
\* validateWorkoutExerciseInput without its two typeof checks.
validateWorkoutExerciseInput_noTypeCheck(body) ==
  IF Falsy(body.workout_id)
    THEN [next |-> 0, status |-> 400, send |-> "Missing required field: workout_id.", body |-> body]
  ELSE IF Falsy(body.exercise_id)
    THEN [next |-> 0, status |-> 400, send |-> "Missing required field: exercise_id.", body |-> body]
  ELSE [next |-> 1, status |-> 0, send |-> "", body |-> body]

\* validateWorkoutExerciseInput: the response it sends (status 400) or the
\* hand-over to the route handler (next = 1, with the body it passes on).
validateWorkoutExerciseInput(body) ==
  IF Falsy(body.workout_id)
    THEN [next |-> 0, status |-> 400, send |-> "Missing required field: workout_id.", body |-> body]
  ELSE IF Falsy(body.exercise_id)
    THEN [next |-> 0, status |-> 400, send |-> "Missing required field: exercise_id.", body |-> body]
  ELSE IF TypeOf(body.workout_id) # "number"
    THEN [next |-> 0, status |-> 400, send |-> "Invalid input: workout_id must be a number.", body |-> body]
  ELSE IF TypeOf(body.exercise_id) # "number"
    THEN [next |-> 0, status |-> 400, send |-> "Invalid input: exercise_id must be a number.", body |-> body]
  ELSE [next |-> 1, status |-> 0, send |-> "", body |-> body]

\* validateSetInput
validateSetInput(body) ==
  IF Falsy(body.workout_exercises_id)
    THEN [next |-> 0, status |-> 400, send |-> "Missing required field: workout_exercises_id", body |-> body]
  ELSE IF Falsy(body.reps)
    THEN [next |-> 0, status |-> 400, send |-> "Missing required field: reps", body |-> body]
  ELSE IF Falsy(body.weight)
    THEN [next |-> 0, status |-> 400, send |-> "Missing required field: weight", body |-> body]
  ELSE IF LessThanZero(body.reps)
    THEN [next |-> 0, status |-> 400, send |-> "Reps must be at least 1 or more.", body |-> body]
  ELSE IF LessThanZero(body.weight)
    THEN [next |-> 0, status |-> 400, send |-> "Weight must be at least 1 lbs or more.", body |-> body]
  ELSE [next |-> 1, status |-> 0, send |-> "", body |-> body]

\* ------------------------------------------------------------------ inputs
\* Path parameters (:id) are numeric.
WorkoutIds == 1 .. MaxWorkoutId
WorkoutExerciseIds == 1 .. MaxWorkoutExerciseId

Names == {Undefined, Str("Leg Day")}
Dates == {Str("2024-05-01")}
Notes == {Undefined, Str("Felt strong today.")}

\* Bodies of POST /workout_exercises: the well-formed ones, and those with
\* one field missing, zero, of another type or naming no row.
WorkoutExerciseBodies ==
  [workout_id : {Num(i) : i \in WorkoutIds}, exercise_id : {Num(1)}]
  \cup [workout_id : {Undefined, Num(0), Str("abc"), Str("2")}, exercise_id : {Num(1)}]
  \cup [workout_id : {Num(1)},
        exercise_id : {Undefined, Num(0), Str("abc"), Num(Len(SeedExercises) + 1)}]

\* Bodies of POST /sets: the well-formed ones, and those with one field
\* missing, zero, negative or a string.
SetBodies ==
  [workout_exercises_id : {Num(i) : i \in WorkoutExerciseIds}, reps : {Num(2)}, weight : {Num(5)}]
  \cup [workout_exercises_id : {Undefined, Num(0)}, reps : {Num(2)}, weight : {Num(5)}]
  \cup [workout_exercises_id : {Num(1)},
        reps : {Undefined, Num(0), Num(-1), Str("0"), Str("-1"), Str("abc")},
        weight : {Num(5)}]
  \cup [workout_exercises_id : {Num(1)}, reps : {Num(2)},
        weight : {Undefined, Num(0), Num(-1)}]

\* connection.query may fail for reasons outside the statement (the
\* connection): fail = TRUE stands for such a call, which changes nothing.
\* A request that makes no store call has fail = FALSE.
Outcome(fail, r, table) == IF fail THEN Failed(table) ELSE r

\* ---------------------------------------------------------------- handlers
\* app.get("/")
GetRoot ==
  /\ resp' = Response("GET /", 200, "Hello Worl... Workout Tracker!", <<>>, NoRows, <<>>)
  /\ UNCHANGED <<workouts, exercises, workout_exercises, sets, autoinc, pending>>

\* app.get("/workouts")
GetWorkouts(fail) ==
    LET r == Outcome(fail, Done(0, workouts), workouts)
        calls == <<Call("SELECT workouts", r)>>
    IN /\ resp' = IF r.err
                  THEN Response("GET /workouts", 500, "Error fetching workouts", <<>>, NoRows, calls)
                  ELSE Response("GET /workouts", 200, "", <<>>, SelectWorkouts, calls)
       /\ UNCHANGED <<workouts, exercises, workout_exercises, sets, autoinc, pending>>

\* app.post("/workouts")
PostWorkouts(name, date, fail) ==
    LET r == Outcome(fail, InsertWorkout(name, date), workouts)
        calls == <<Call("INSERT workouts", r)>>
    IN /\ autoinc.workouts <= MaxWorkoutId
       /\ workouts' = r.table
       /\ autoinc' = IF r.err THEN autoinc ELSE [autoinc EXCEPT !.workouts = @ + 1]
       /\ resp' = IF r.err
                  THEN Response("POST /workouts", 500, "Error adding workout", <<>>, NoRows, calls)
                  ELSE Response("POST /workouts", 201, "New workout added!", <<name>>, NoRows, calls)
       /\ UNCHANGED <<exercises, workout_exercises, sets, pending>>

\* app.get("/workouts/:id")
GetWorkoutById(id, fail) ==
    LET r == Outcome(fail, Done(0, workout_exercises), workout_exercises)
        calls == <<Call("SELECT workout detail", r)>>
    IN /\ resp' = IF r.err
                  THEN Response("GET /workouts/:id", 500, "Error fetching exercise and set details",
                                <<Num(id)>>, NoRows, calls)
                  ELSE Response("GET /workouts/:id", 200, "", <<Num(id)>>, SelectWorkoutDetail(id), calls)
       /\ UNCHANGED <<workouts, exercises, workout_exercises, sets, autoinc, pending>>

\* app.get("/workouts/:id/exercises")
GetWorkoutExercisesById(id, fail) ==
    LET r == Outcome(fail, Done(0, workout_exercises), workout_exercises)
        calls == <<Call("SELECT workout exercises", r)>>
    IN /\ resp' = IF r.err
                  THEN Response("GET /workouts/:id/exercises", 500, "Error fetching exercises",
                                <<Num(id)>>, NoRows, calls)
                  ELSE Response("GET /workouts/:id/exercises", 200, "", <<Num(id)>>,
                                SelectWorkoutExercises(id), calls)
       /\ UNCHANGED <<workouts, exercises, workout_exercises, sets, autoinc, pending>>

\* app.patch("/workouts/:id/notes")
PatchWorkoutNotes(id, notes, fail) ==
    LET r == Outcome(fail, UpdateNotes(notes, id), workouts)
        calls == <<Call("UPDATE workouts notes", r)>>
    IN /\ workouts' = r.table
       /\ resp' = IF r.err
                  THEN Response("PATCH /workouts/:id/notes", 500,
                                "Error adding/updating workout notes.", <<Num(id)>>, NoRows, calls)
                  ELSE IF r.affectedRows = 0
                  THEN Response("PATCH /workouts/:id/notes", 404,
                                "Workout not found. Doesn't exist.", <<Num(id)>>, NoRows, calls)
                  ELSE Response("PATCH /workouts/:id/notes", 200,
                                "Workout notes updated successfully", <<Num(id)>>, NoRows, calls)
       /\ UNCHANGED <<exercises, workout_exercises, sets, autoinc, pending>>

\* app.get("/exercises")
GetExercises(fail) ==
    LET r == Outcome(fail, Done(0, exercises), exercises)
        calls == <<Call("SELECT exercises", r)>>
    IN /\ resp' = IF r.err
                  THEN Response("GET /exercises", 500, "Error getting exercises list.", <<>>, NoRows, calls)
                  ELSE Response("GET /exercises", 200, "", <<>>, SelectExercises, calls)
       /\ UNCHANGED <<workouts, exercises, workout_exercises, sets, autoinc, pending>>

\* app.post("/workout_exercises", validateWorkoutExerciseInput, ...)
PostWorkoutExercises(body, fail) ==
  LET mw == validateWorkoutExerciseInput(body)
      r == Outcome(fail, InsertWorkoutExercise(mw.body.workout_id, mw.body.exercise_id),
                   workout_exercises)
      calls == <<Call("INSERT workout_exercises", r)>>
  IN IF mw.next = 0
     THEN /\ ~fail
          /\ resp' = Response("POST /workout_exercises", mw.status, mw.send, <<>>, NoRows, <<>>)
          /\ UNCHANGED <<workouts, exercises, workout_exercises, sets, autoinc, pending>>
     ELSE /\ autoinc.workout_exercises <= MaxWorkoutExerciseId
          /\ workout_exercises' = r.table
          /\ autoinc' = IF r.err THEN autoinc ELSE [autoinc EXCEPT !.workout_exercises = @ + 1]
          /\ resp' = IF r.err
                     THEN Response("POST /workout_exercises", 500,
                                   "Error adding exercise to workout.", <<>>, NoRows, calls)
                     ELSE Response("POST /workout_exercises", 201, "Exercise add to workout",
                                   <<mw.body.exercise_id, mw.body.workout_id>>, NoRows, calls)
          /\ UNCHANGED <<workouts, exercises, sets, pending>>

\* app.post("/sets", validateSetInput, ...)
PostSets(body, fail) ==
  LET mw == validateSetInput(body)
      r == Outcome(fail, InsertSet(mw.body.workout_exercises_id, mw.body.reps, mw.body.weight),
                   sets)
      calls == <<Call("INSERT sets", r)>>
  IN IF mw.next = 0
     THEN /\ ~fail
          /\ resp' = Response("POST /sets", mw.status, mw.send, <<>>, NoRows, <<>>)
          /\ UNCHANGED <<workouts, exercises, workout_exercises, sets, autoinc, pending>>
     ELSE /\ autoinc.sets <= MaxSetId
          /\ sets' = r.table
          /\ autoinc' = IF r.err THEN autoinc ELSE [autoinc EXCEPT !.sets = @ + 1]
          /\ resp' = IF r.err
                     THEN Response("POST /sets", 500, "Error adding set to exercise", <<>>, NoRows, calls)
                     ELSE Response("POST /sets", 201, "Added set to workout exercise ID",
                                   <<mw.body.workout_exercises_id>>, NoRows, calls)
          /\ UNCHANGED <<workouts, exercises, workout_exercises, pending>>

\* The slot a newly arrived cascading delete takes.
FreeSlots == {k \in DOMAIN pending : pending[k] = Idle}
FreeSlot == CHOOSE k \in FreeSlots : \A j \in FreeSlots : k <= j

\* app.delete("/workouts/:id"): the request arrives and its first store call,
\* deleteWorkoutExerciseSetsQuery, runs.  On success the second call is issued
\* from the callback and the request waits for it in a slot of pending.
DeleteWorkoutSets(id, fail) ==
  LET r == Outcome(fail, deleteWorkoutExerciseSetsQuery(id), sets)
      calls == <<Call("deleteWorkoutExerciseSetsQuery", r)>>
  IN /\ FreeSlots # {}
     /\ sets' = r.table
     /\ IF r.err
        THEN /\ resp' = Response("DELETE /workouts/:id", 500,
                                 "Error deleting sets from exercise linked to workout",
                                 <<Num(id)>>, NoRows, calls)
             /\ UNCHANGED pending
        ELSE /\ pending' = [pending EXCEPT ![FreeSlot] =
                              [route |-> "DELETE /workouts/:id", id |-> id, calls |-> calls]]
             /\ UNCHANGED resp
     /\ UNCHANGED <<workouts, exercises, workout_exercises, autoinc>>

\* DeleteWorkoutExercises whose callback goes on to the third call after an
\* error as well.
DeleteWorkoutExercises_ignoresErr(k, fail) ==
  LET id == pending[k].id
      r == IF fail THEN [err |-> TRUE, affectedRows |-> 0, table |-> workout_exercises]
           ELSE deleteWorkoutExerciseQuery(id)
      calls == Append(pending[k].calls,
                      [query |-> "deleteWorkoutExerciseQuery", err |-> r.err,
                       affectedRows |-> r.affectedRows])
  IN /\ pending[k].route = "DELETE /workouts/:id"
     /\ Len(pending[k].calls) = 1
     /\ workout_exercises' = r.table
     /\ pending' = [pending EXCEPT ![k].calls = calls]
     /\ UNCHANGED <<workouts, exercises, sets, autoinc, resp>>

\* The second store call of DELETE /workouts/:id, deleteWorkoutExerciseQuery.
DeleteWorkoutExercises(k, fail) ==
  LET id == pending[k].id
      r == Outcome(fail, deleteWorkoutExerciseQuery(id), workout_exercises)
      calls == Append(pending[k].calls, Call("deleteWorkoutExerciseQuery", r))
  IN /\ pending[k].route = "DELETE /workouts/:id"
     /\ Len(pending[k].calls) = 1
     /\ workout_exercises' = r.table
     /\ IF r.err
        THEN /\ resp' = Response("DELETE /workouts/:id", 500,
                                 "Error deleting exercises for workout ${id}",
                                 <<Num(id)>>, NoRows, calls)
             /\ pending' = [pending EXCEPT ![k] = Idle]
        ELSE /\ pending' = [pending EXCEPT ![k].calls = calls]
             /\ UNCHANGED resp
     /\ UNCHANGED <<workouts, exercises, sets, autoinc>>

\* DeleteWorkoutRow without the test of results.affectedRows.
DeleteWorkoutRow_noNotFound(k, fail) ==
  LET id == pending[k].id
      r == IF fail THEN [err |-> TRUE, affectedRows |-> 0, table |-> workouts]
           ELSE deleteWorkoutQuery(id)
      calls == Append(pending[k].calls,
                      [query |-> "deleteWorkoutQuery", err |-> r.err,
                       affectedRows |-> r.affectedRows])
  IN /\ pending[k].route = "DELETE /workouts/:id"
     /\ Len(pending[k].calls) = 2
     /\ workouts' = r.table
     /\ resp' = [route |-> "DELETE /workouts/:id",
                 status |-> IF r.err THEN 500 ELSE 200,
                 send |-> IF r.err THEN "Error deleting workout"
                          ELSE "Successfully deleted workout and it's exercises!",
                 args |-> <<Num(id)>>, json |-> {}, calls |-> calls]
     /\ pending' = [pending EXCEPT ![k] = [route |-> "idle", id |-> 0, calls |-> <<>>]]
     /\ UNCHANGED <<exercises, workout_exercises, sets, autoinc>>

\* The third store call of DELETE /workouts/:id, deleteWorkoutQuery, and the
\* response.
DeleteWorkoutRow(k, fail) ==
  LET id == pending[k].id
      r == Outcome(fail, deleteWorkoutQuery(id), workouts)
      calls == Append(pending[k].calls, Call("deleteWorkoutQuery", r))
  IN /\ pending[k].route = "DELETE /workouts/:id"
     /\ Len(pending[k].calls) = 2
     /\ workouts' = r.table
     /\ resp' = IF r.err
                THEN Response("DELETE /workouts/:id", 500, "Error deleting workout",
                              <<Num(id)>>, NoRows, calls)
                ELSE IF r.affectedRows = 0
                THEN Response("DELETE /workouts/:id", 404, "Workout not found.",
                              <<Num(id)>>, NoRows, calls)
                ELSE Response("DELETE /workouts/:id", 200,
                              "Successfully deleted workout and it's exercises!",
                              <<Num(id)>>, NoRows, calls)
     /\ pending' = [pending EXCEPT ![k] = Idle]
     /\ UNCHANGED <<exercises, workout_exercises, sets, autoinc>>

\* app.delete("/workout_exercises/:id"): the request arrives and its first
\* store call, deleteSetsQuery, runs.
DeleteWorkoutExerciseSets(id, fail) ==
  LET r == Outcome(fail, deleteSetsQuery(id), sets)
      calls == <<Call("deleteSetsQuery", r)>>
  IN /\ FreeSlots # {}
     /\ sets' = r.table
     /\ IF r.err
        THEN /\ resp' = Response("DELETE /workout_exercises/:id", 500,
                                 "Error deleting sets for workout", <<Num(id)>>, NoRows, calls)
             /\ UNCHANGED pending
        ELSE /\ pending' = [pending EXCEPT ![FreeSlot] =
                              [route |-> "DELETE /workout_exercises/:id", id |-> id,
                               calls |-> calls]]
             /\ UNCHANGED resp
     /\ UNCHANGED <<workouts, exercises, workout_exercises, autoinc>>

\* The second store call of DELETE /workout_exercises/:id and the response.
DeleteWorkoutExerciseRow(k, fail) ==
  LET id == pending[k].id
      r == Outcome(fail, deleteWorkoutExerciseRowQuery(id), workout_exercises)
      calls == Append(pending[k].calls, Call("deleteWorkoutExerciseQuery (by id)", r))
  IN /\ pending[k].route = "DELETE /workout_exercises/:id"
     /\ workout_exercises' = r.table
     /\ resp' = IF r.err
                THEN Response("DELETE /workout_exercises/:id", 500,
                              "Error deleting exercise for workout_exercise",
                              <<Num(id)>>, NoRows, calls)
                ELSE IF r.affectedRows = 0
                THEN Response("DELETE /workout_exercises/:id", 404,
                              "Workout exercise not found.", <<Num(id)>>, NoRows, calls)
                ELSE Response("DELETE /workout_exercises/:id", 200,
                              "Successfully deleted exercise and sets for workout",
                              <<Num(id)>>, NoRows, calls)
     /\ pending' = [pending EXCEPT ![k] = Idle]
     /\ UNCHANGED <<workouts, exercises, sets, autoinc>>

\* ----------------------------------------------------------- specification
\* The store as the schema script leaves it before any row of a workout is
\* logged: the exercises catalog and three empty tables.
Init ==
  /\ workouts = EmptyTable
  /\ exercises = [e \in 1 .. Len(SeedExercises) |-> SeedExercises[e]]
  /\ workout_exercises = EmptyTable
  /\ sets = EmptyTable
  /\ autoinc = [workouts |-> 1, workout_exercises |-> 1, sets |-> 1]
  /\ pending = [k \in 1 .. MaxInFlight |-> Idle]
  /\ resp = Response("none", 0, "", <<>>, NoRows, <<>>)

\* A request arrives and its handler runs up to its first callback.
Arrive ==
  \/ GetRoot
  \/ \E fail \in BOOLEAN : GetWorkouts(fail)
  \/ \E name \in Names, date \in Dates, fail \in BOOLEAN : PostWorkouts(name, date, fail)
  \/ \E id \in WorkoutIds, fail \in BOOLEAN : GetWorkoutById(id, fail)
  \/ \E id \in WorkoutIds, fail \in BOOLEAN : GetWorkoutExercisesById(id, fail)
  \/ \E id \in WorkoutIds, notes \in Notes, fail \in BOOLEAN : PatchWorkoutNotes(id, notes, fail)
  \/ \E fail \in BOOLEAN : GetExercises(fail)
  \/ \E body \in WorkoutExerciseBodies, fail \in BOOLEAN : PostWorkoutExercises(body, fail)
  \/ \E body \in SetBodies, fail \in BOOLEAN : PostSets(body, fail)
  \/ \E id \in WorkoutIds, fail \in BOOLEAN : DeleteWorkoutSets(id, fail)
  \/ \E id \in WorkoutExerciseIds, fail \in BOOLEAN : DeleteWorkoutExerciseSets(id, fail)

\* The callback of a pending cascading delete runs its next store call.
Continue ==
  \/ \E k \in DOMAIN pending, fail \in BOOLEAN : DeleteWorkoutExercises(k, fail)
  \/ \E k \in DOMAIN pending, fail \in BOOLEAN : DeleteWorkoutRow(k, fail)
  \/ \E k \in DOMAIN pending, fail \in BOOLEAN : DeleteWorkoutExerciseRow(k, fail)

\* Next of a server that takes no request while a cascading delete waits for
\* a callback.
Next_oneAtATime ==
  \/ (\A k \in DOMAIN pending : pending[k] = Idle) /\ Arrive
  \/ Continue

Next == Arrive \/ Continue

\* Requests of concurrent clients: any request may arrive, and any store call
\* may run, between two store calls of a cascading delete.
Spec == Init /\ [][Next]_vars

\* One client that waits for each response before it sends the next request.
NoPending == \A k \in DOMAIN pending : pending[k] = Idle
NextSeq == (NoPending /\ Arrive) \/ Continue
SpecSeq == Init /\ [][NextSeq]_vars

\* ------------------------------------------------------------------ claims
\* No call of a request's log erred.
NoStoreError(calls) == \A i \in DOMAIN calls : ~calls[i].err

\* C1: a DELETE /workouts/X that runs without store errors and without other
\* requests between its steps leaves no workout row X, no workout_exercises
\* row of X and no set under a workout_exercises row of X (every set that
\* remains hangs under a remaining row of another workout), and the listing
\* of workouts no longer shows X; its first two steps leave the workout row
\* as it was at the start.
C1_DeleteWorkoutRemovesChain ==
  [][ /\ \A id \in WorkoutIds, fail \in BOOLEAN :
           DeleteWorkoutSets(id, fail) => workouts' = workouts
      /\ \A k \in DOMAIN pending, fail \in BOOLEAN :
           DeleteWorkoutExercises(k, fail) => workouts' = workouts
      /\ resp'.route = "DELETE /workouts/:id" =>
         \A k \in DOMAIN pending, fail \in BOOLEAN :
           (DeleteWorkoutRow(k, fail) /\ NoStoreError(resp'.calls)) =>
             LET X == pending[k].id
             IN /\ X \notin Rows(workouts')
                /\ \A w \in Rows(workout_exercises') : workout_exercises'[w].workout_id # X
                /\ \A s \in Rows(sets') :
                     /\ sets'[s].workout_exercises_id \in Rows(workout_exercises')
                     /\ workout_exercises'[sets'[s].workout_exercises_id].workout_id # X
                /\ \A row \in SelectWorkouts' : row.id # X
    ]_vars

\* C1 witness: a workout that had exercises with sets was deleted with 200.
C1_Witness ==
  /\ resp.route = "DELETE /workouts/:id" /\ resp.status = 200
  /\ resp.calls[1].affectedRows >= 1 /\ resp.calls[2].affectedRows >= 1

\* C2: in every reachable state every set references an existing
\* workout_exercises row, and every workout_exercises row references an
\* existing workout and an existing exercise.
C2_ReferentialIntegrity ==
  /\ \A s \in Rows(sets) : sets[s].workout_exercises_id \in Rows(workout_exercises)
  /\ \A w \in Rows(workout_exercises) :
       /\ workout_exercises[w].workout_id \in Rows(workouts)
       /\ workout_exercises[w].exercise_id \in Rows(exercises)

\* C2 witness: a cascading delete is between its second and third store call,
\* having deleted sets and workout_exercises rows, while another workout
\* still has rows.
C2_Witness ==
  \E k \in DOMAIN pending :
    /\ pending[k].route = "DELETE /workouts/:id" /\ Len(pending[k].calls) = 2
    /\ pending[k].calls[1].affectedRows >= 1 /\ pending[k].calls[2].affectedRows >= 1
    /\ Rows(workout_exercises) # {}

\* C3: PATCH /workouts/:id/notes on an id with no workout row leaves every
\* table unchanged and, unless the store call fails, responds 404; on an id
\* with a row it responds 200 (unless the store call fails) and changes
\* nothing but that row's notes.
C3_PatchNotes ==
  [][ resp'.route = "PATCH /workouts/:id/notes" =>
      \A id \in WorkoutIds, notes \in Notes, fail \in BOOLEAN :
        PatchWorkoutNotes(id, notes, fail) =>
          IF id \notin Rows(workouts)
          THEN /\ store' = store
               /\ ~resp'.calls[1].err => resp'.status = 404
          ELSE /\ ~resp'.calls[1].err => resp'.status = 200
               /\ Rows(workouts') = Rows(workouts)
               /\ \A w \in Rows(workouts) :
                    /\ w # id => workouts'[w] = workouts[w]
                    /\ workouts'[w].name = workouts[w].name
                    /\ workouts'[w].date = workouts[w].date
               /\ <<exercises, workout_exercises, sets>>' = <<exercises, workout_exercises, sets>>
    ]_vars

\* C3 witness: a 404 for a missing id while another workout exists.
C3_Witness ==
  /\ resp.route = "PATCH /workouts/:id/notes" /\ resp.status = 404
  /\ Rows(workouts) # {}

\* C4: after a POST /workouts that responds 201 the listing of workouts holds
\* every row it held before, unchanged, and exactly one more row, which has
\* the submitted name and an id no listed row had.
C4_PostWorkoutAddsOneRow ==
  [][ (resp'.route = "POST /workouts" /\ resp'.status = 201) =>
      \A name \in Names, date \in Dates, fail \in BOOLEAN :
        PostWorkouts(name, date, fail) =>
          LET before == SelectWorkouts
              after == SelectWorkouts'
          IN /\ before \subseteq after
             /\ Cardinality(after \ before) = 1
             /\ \A row \in after \ before :
                  /\ name.t = "string" /\ row.name = name.s
                  /\ \A old \in before : old.id # row.id
    ]_vars

\* C4 witness: a 201 with an earlier workout still listed.
C4_Witness ==
  /\ resp.route = "POST /workouts" /\ resp.status = 201
  /\ Cardinality(SelectWorkouts) = 2

\* The fields of a POST /sets body the set guard is said to refuse.
SetBodyRefused(body) ==
  \/ Falsy(body.workout_exercises_id) \/ Falsy(body.reps) \/ Falsy(body.weight)
  \/ LessThanZero(body.reps) \/ LessThanZero(body.weight)

\* What the set guard does with a POST /sets request: a refused body gets 400
\* with no store call and nothing changed, any other body reaches the insert
\* handler once, which makes one store call.
SetGuardStep ==
  resp'.route = "POST /sets" =>
  \A body \in SetBodies, fail \in BOOLEAN :
    PostSets(body, fail) =>
      IF SetBodyRefused(body)
      THEN /\ resp'.status = 400 /\ resp'.calls = <<>>
           /\ store' = store /\ autoinc' = autoinc
      ELSE /\ validateSetInput(body).next = 1
           /\ resp'.status \in {201, 500} /\ Len(resp'.calls) = 1

\* C5: the set guard refuses with 400, before any store call, a body whose
\* workout_exercises_id, reps or weight is missing or falsy (0 included) or
\* whose reps or weight is negative, hands every other body to the insert
\* handler once, and so no set row ever holds reps or weight that is zero or
\* negative.
C5_SetGuard ==
  /\ [][SetGuardStep]_vars
  /\ [](\A s \in Rows(sets) : sets[s].reps > 0 /\ sets[s].weight > 0)

\* The guard's part of C5 alone, which the code satisfies.
C5_SetGuardStepOnly == [][SetGuardStep]_vars

\* C6: POST /workout_exercises with workout_id or exercise_id missing, falsy
\* or not of type number is answered 400 with no store call and nothing
\* changed; with two non-zero numbers the guard hands the body on unchanged,
\* once: the handler makes one store call, and a 201 means the row inserted
\* carries exactly the two ids of the body.
C6_WorkoutExerciseGuard ==
  [][ resp'.route = "POST /workout_exercises" =>
      \A body \in WorkoutExerciseBodies, fail \in BOOLEAN :
        PostWorkoutExercises(body, fail) =>
          IF \/ Falsy(body.workout_id) \/ Falsy(body.exercise_id)
             \/ TypeOf(body.workout_id) # "number" \/ TypeOf(body.exercise_id) # "number"
          THEN /\ resp'.status = 400 /\ resp'.calls = <<>>
               /\ store' = store /\ autoinc' = autoinc
          ELSE /\ validateWorkoutExerciseInput(body).next = 1
               /\ validateWorkoutExerciseInput(body).body = body
               /\ resp'.status \in {201, 500} /\ Len(resp'.calls) = 1
               /\ resp'.status = 201 =>
                    /\ resp'.args = <<body.exercise_id, body.workout_id>>
                    /\ \E w \in Rows(workout_exercises') \ Rows(workout_exercises) :
                         /\ workout_exercises'[w].workout_id = body.workout_id.n
                         /\ workout_exercises'[w].exercise_id = body.exercise_id.n
    ]_vars

\* C6 witness: a string workout_id was refused for its type.
C6_Witness ==
  /\ resp.route = "POST /workout_exercises" /\ resp.status = 400
  /\ resp.send = "Invalid input: workout_id must be a number."

\* C7: DELETE /workout_exercises/:id whose store calls meet no
\* infrastructure failure responds 200 when the row existed, and then neither
\* the row nor a set of it remains, and 404 when no row has that id.
C7_DeleteWorkoutExercise ==
  [][ resp'.route = "DELETE /workout_exercises/:id" =>
      \A k \in DOMAIN pending :
        DeleteWorkoutExerciseRow(k, FALSE) =>
          LET id == pending[k].id
          IN IF id \in Rows(workout_exercises)
             THEN /\ resp'.status = 200
                  /\ id \notin Rows(workout_exercises')
                  /\ \A s \in Rows(sets') : sets'[s].workout_exercises_id # id
             ELSE resp'.status = 404
    ]_vars

\* The store calls of DELETE /workouts/:id, in the order the handler issues them.
DeleteWorkoutOrder ==
  <<"deleteWorkoutExerciseSetsQuery", "deleteWorkoutExerciseQuery", "deleteWorkoutQuery">>

\* A log of store calls that follows the order, each call after the first
\* having only successful calls before it.
InOrder(calls) ==
  /\ Len(calls) <= Len(DeleteWorkoutOrder)
  /\ \A i \in DOMAIN calls :
       /\ calls[i].query = DeleteWorkoutOrder[i]
       /\ i < Len(calls) => ~calls[i].err

\* C8: the store calls of a DELETE /workouts/:id are issued in the order
\* sets, workout_exercises, workout, each only after the one before it
\* succeeded; a request waiting for a callback has met no error; the response
\* is 500 exactly when its last call erred, and a response without error
\* comes after all three calls.
C8_DeleteWorkoutOrder ==
  /\ \A k \in DOMAIN pending :
       pending[k].route = "DELETE /workouts/:id" =>
         /\ InOrder(pending[k].calls) /\ NoStoreError(pending[k].calls)
         /\ Len(pending[k].calls) \in {1, 2}
  /\ resp.route = "DELETE /workouts/:id" =>
       /\ InOrder(resp.calls) /\ Len(resp.calls) >= 1
       /\ resp.status = 500 <=> resp.calls[Len(resp.calls)].err
       /\ resp.status # 500 => Len(resp.calls) = 3 /\ resp.status \in {200, 404}

\* C8 witness: the second call erred after the first deleted sets, and the
\* request ended there with 500.
C8_Witness ==
  /\ resp.route = "DELETE /workouts/:id" /\ resp.status = 500
  /\ Len(resp.calls) = 2 /\ resp.calls[1].affectedRows >= 1

\* The number of rows a bag returns among the rows of S.
RECURSIVE BagCount(_, _)
BagCount(bag, S) ==
  IF S = {} THEN 0
  ELSE LET r == CHOOSE x \in S : TRUE IN bag[r] + BagCount(bag, S \ {r})

\* C9: a 200 of GET /workouts/X returns, for each workout_exercises row of X
\* without sets, exactly one row, with reps and weight null; for each with
\* k >= 1 sets exactly k rows, one per set with that set's reps and weight;
\* and no row of a workout_exercises row of another workout.
C9_WorkoutDetailRows ==
  [][ (resp'.route = "GET /workouts/:id" /\ resp'.status = 200) =>
      \A id \in WorkoutIds, fail \in BOOLEAN :
        GetWorkoutById(id, fail) =>
          LET bag == resp'.json
              rowsOf(w) == {r \in DOMAIN bag : r.workout_exercise_id = w}
          IN /\ \A r \in DOMAIN bag :
                  /\ bag[r] >= 1
                  /\ r.workout_exercise_id \in Rows(workout_exercises)
                  /\ workout_exercises[r.workout_exercise_id].workout_id = id
             /\ \A w \in Rows(workout_exercises) :
                  workout_exercises[w].workout_id = id =>
                    IF SetsOf({w}) = {}
                    THEN /\ BagCount(bag, rowsOf(w)) = 1
                         /\ \A r \in rowsOf(w) : r.reps = Null /\ r.weight = Null
                    ELSE /\ BagCount(bag, rowsOf(w)) = Cardinality(SetsOf({w}))
                         /\ \A r \in rowsOf(w) :
                              bag[r] = Cardinality({s \in SetsOf({w}) :
                                         /\ r.reps = Some(sets[s].reps)
                                         /\ r.weight = Some(sets[s].weight)})
    ]_vars

\* C9 witness: one response holds a row with null reps and weight for an
\* exercise without sets and two rows for an exercise with two sets.
C9_Witness ==
  /\ resp.route = "GET /workouts/:id" /\ resp.status = 200
  /\ \E r \in DOMAIN resp.json : r.reps = Null /\ r.weight = Null
  /\ \E w \in WorkoutExerciseIds :
       BagCount(resp.json, {r \in DOMAIN resp.json : r.workout_exercise_id = w}) = 2

C12_DeleteWorkoutNotAtomic ==
  \A k \in DOMAIN pending :
    pending[k].route = "DELETE /workouts/:id" =>
      LET X == pending[k].id
      IN /\ ENABLED (/\ Next
                     /\ resp'.route = "GET /workouts/:id" /\ resp'.status = 200
                     /\ resp'.args = <<Num(X)>>
                     /\ resp'.json = SelectWorkoutDetail(X)
                     /\ \A r \in DOMAIN resp'.json :
                          SetsOf({r.workout_exercise_id}) = {} =>
                            r.reps = Null /\ r.weight = Null
                     /\ pending' = pending)
         /\ (/\ Len(pending[k].calls) = 2
             /\ X \in Rows(workouts)
             /\ autoinc.workout_exercises <= MaxWorkoutExerciseId) =>
              ENABLED (/\ Next
                       /\ resp'.route = "POST /workout_exercises" /\ resp'.status = 201
                       /\ resp'.args[2] = Num(X)
                       /\ autoinc.workout_exercises \in Rows(workout_exercises')
                       /\ workout_exercises'[autoinc.workout_exercises].workout_id = X
                       /\ pending' = pending)

\* C12 witness: a POST /workout_exercises linked an exercise to X after the
\* second call of DELETE /workouts/X removed X's workout_exercises rows and
\* before its third call: the delete waits for its third call, and X has a
\* workout_exercises row again.
C12_Witness ==
  \E k \in DOMAIN pending :
    /\ pending[k].route = "DELETE /workouts/:id"
    /\ Len(pending[k].calls) = 2 /\ pending[k].calls[2].affectedRows >= 1
    /\ WorkoutExercisesOf(pending[k].id) # {}
    /\ resp.route = "POST /workout_exercises" /\ resp.status = 201
    /\ resp.args[2] = Num(pending[k].id)

\* The other interleaving C12 names: the first call of DELETE /workouts/X
\* removed the sets of X's only workout_exercises row, and the last response
\* is a GET /workouts/X that shows the row with null reps and weight while
\* the delete waits for its second call.
C12_ObservedWithoutSets ==
  \E k \in DOMAIN pending :
    /\ pending[k].route = "DELETE /workouts/:id"
    /\ Len(pending[k].calls) = 1 /\ pending[k].calls[1].affectedRows >= 1
    /\ Cardinality(WorkoutExercisesOf(pending[k].id)) = 1
    /\ resp.route = "GET /workouts/:id" /\ resp.status = 200
    /\ resp.args = <<Num(pending[k].id)>>
    /\ DOMAIN resp.json # {}
    /\ \A r \in DOMAIN resp.json :
         /\ r.workout_exercise_id \in WorkoutExercisesOf(pending[k].id)
         /\ r.reps = Null /\ r.weight = Null

\* C13: with requests of other clients running between its steps, whenever
\* DELETE /workouts/X responds 200, its third call removed the workout row X
\* and in the store it leaves there is no workout row X, no workout_exercises
\* row with workout_id X and no set under a workout_exercises row of X or
\* under a missing row; so no link or set inserted for X between the steps
\* is left after a 200.
C13_DeleteWorkout200LeavesNoRow ==
  [][ (resp'.route = "DELETE /workouts/:id" /\ resp'.status = 200) =>
      \A k \in DOMAIN pending, fail \in BOOLEAN :
        DeleteWorkoutRow(k, fail) =>
          LET X == pending[k].id
          IN /\ X \in Rows(workouts) /\ X \notin Rows(workouts')
             /\ \A w \in Rows(workout_exercises') : workout_exercises'[w].workout_id # X
             /\ \A s \in Rows(sets') :
                  /\ sets'[s].workout_exercises_id \in Rows(workout_exercises')
                  /\ workout_exercises'[sets'[s].workout_exercises_id].workout_id # X
    ]_vars

\* C13 witness: DELETE /workouts/X responded 200 after its first call removed
\* sets and its second call removed two workout_exercises rows; nothing of X
\* is left.
C13_Witness ==
  /\ resp.route = "DELETE /workouts/:id" /\ resp.status = 200
  /\ resp.calls[1].affectedRows >= 1 /\ resp.calls[2].affectedRows = 2
  /\ resp.args[1].n \notin Rows(workouts)
  /\ WorkoutExercisesOf(resp.args[1].n) = {}

\* A step leaves every row that is not of X's chain, the exercises catalog
\* and the id counters as they are, and adds no row.
OutsideUnchanged(X) ==
  /\ exercises' = exercises
  /\ autoinc' = autoinc
  /\ Rows(workouts') \subseteq Rows(workouts)
  /\ \A w \in Rows(workouts) \ {X} : w \in Rows(workouts') /\ workouts'[w] = workouts[w]
  /\ Rows(workout_exercises') \subseteq Rows(workout_exercises)
  /\ \A w \in Rows(workout_exercises) :
       workout_exercises[w].workout_id # X =>
         w \in Rows(workout_exercises') /\ workout_exercises'[w] = workout_exercises[w]
  /\ Rows(sets') \subseteq Rows(sets)
  /\ \A s \in Rows(sets) :
       sets[s].workout_exercises_id \notin WorkoutExercisesOf(X) =>
         s \in Rows(sets') /\ sets'[s] = sets[s]

\* C14: each store call of DELETE /workouts/X, whether it succeeds or errs
\* and whatever the response (200, 404 or 500), leaves unchanged every
\* workout row other than X, every workout_exercises row of another workout,
\* every set under a workout_exercises row of another workout, and the
\* exercises catalog.
C14_DeleteWorkoutFrame ==
  [][ (pending' # pending \/ resp'.route = "DELETE /workouts/:id") =>
      /\ \A id \in WorkoutIds, fail \in BOOLEAN :
           DeleteWorkoutSets(id, fail) => OutsideUnchanged(id)
      /\ \A k \in DOMAIN pending, fail \in BOOLEAN :
           DeleteWorkoutExercises(k, fail) => OutsideUnchanged(pending[k].id)
      /\ \A k \in DOMAIN pending, fail \in BOOLEAN :
           DeleteWorkoutRow(k, fail) => OutsideUnchanged(pending[k].id)
    ]_vars

\* C14 witness: DELETE /workouts/X responded 200 after removing sets and
\* workout_exercises rows of X, and another workout still has a
\* workout_exercises row with a set.
C14_Witness ==
  /\ resp.route = "DELETE /workouts/:id" /\ resp.status = 200
  /\ resp.calls[1].affectedRows >= 1 /\ resp.calls[2].affectedRows >= 1
  /\ \E s \in Rows(sets) :
       LET w == sets[s].workout_exercises_id
       IN /\ w \in Rows(workout_exercises)
          /\ workout_exercises[w].workout_id \in Rows(workouts) \ {resp.args[1].n}
====
